---- MODULE Spec2Model ----
(***************************************************************************)
(* fastrie: a byte-keyed trie that is built in memory (FastrieBuilderNode), *)
(* serialized by prebuild into one byte buffer plus a value table           *)
(* (FastrieBuild), and queried from that buffer (Fastrie).                  *)
(*                                                                         *)
(* Rust's Option<T> is modelled as a sequence: None is << >> and Some(x)   *)
(* is <<x>>.  A Vec<u8> is a sequence of numbers 0..255; the code's        *)
(* 0-based position p is element p + 1 of the sequence.                    *)
(***************************************************************************)
EXTENDS Integers, Sequences, FiniteSets, TLC

VARIABLES
    builder,   \* the root FastrieBuilderNode
    build,     \* Option<FastrieBuild>: what the first successful prebuild returned
    layout,    \* history: where prebuild put each node and cluster record
    res,       \* the last call and what it returned
    assoc,     \* history: for every key, Option of the value of the last add
    log,       \* history: the add calls in order, where a run records them
    codec      \* a scratch Vec<u8> driven through the IndexWidth methods

vars == <<builder, build, layout, res, assoc, log, codec>>

None == << >>
Some(x) == <<x>>

\* ------------------------------------------------------------------ bounds

\* Index widths 1..MaxW are explored.
MaxW == 2
\* Length of the four long keys, whose records together end beyond position 255.
LongLen == 11
\* The index codec is driven with every index 0..MaxCodecIdx that fits the width.
MaxCodecIdx == 300
\* The longest recorded sequence of add calls.
MaxAdds == 3
\* The bytes per level of the wide trie: 16 + 16 * 16 keys, more than 255 values.
WideB == 16

RESERVED_BYTE == 255
MAX_CLUSTER_GAP_LEN == 3
I16_MIN == -32768

Widths == 1..MaxW
Vals == {"v1", "v2"}
\* Iteration orders of a HashMap's keys: 0 ascending, 1 descending, 2 rotated.
Seeds == {0, 1, 2}

\* The keys add is called with and the texts the reader is asked about.
Keys == {<< >>, <<1>>, <<20>>, <<23>>, <<27>>, <<20, 5>>}
Texts ==
    Keys \cup {<<21>>, <<24>>, <<5>>, <<20, 5, 9>>, <<23, 1>>, <<20, 6>>, <<1, 1>>}

\* Four keys that are long enough together for positions beyond 255.
LongKey(first) == <<first>> \o [i \in 1..(LongLen - 1) |-> 1]
LongKeys == {LongKey(1), LongKey(9), LongKey(30), LongKey(40)}
LongTexts ==
    LongKeys \cup {<<1, 1>>, <<21>>, LongKey(40) \o <<1>>, LongKey(40) \o <<1, 1, 1>>}

\* Keys added to a builder that has been serialized already.
LateKeys == {<< >>, <<20>>, <<20, 7>>}

\* Keys of the runs that record the order of their add calls.
LogKeys == {<<20>>, <<23>>, <<20, 5>>}

\* The keys of a trie two levels deep with WideB bytes at each level: every
\* <<a>> and every <<a, b>>, numbered in the order a caller's nested loops
\* add them.
WideCount == WideB + WideB * WideB
WideKey(i) ==
    LET a == i \div (WideB + 1)
        r == i % (WideB + 1)
    IN  IF r = 0 THEN <<a>> ELSE <<a, r - 1>>
WideKeys == {WideKey(i) : i \in 0..(WideCount - 1)}

AllKeys == Keys \cup LongKeys \cup LateKeys \cup LogKeys \cup WideKeys

\* ------------------------------------------------------------- IndexWidth

RECURSIVE Repeat(_, _)
Repeat(x, n) == IF n <= 0 THEN << >> ELSE <<x>> \o Repeat(x, n - 1)

\* reserve_idx: appends W filler bytes; the position returned is Len(vec) before.
reserve_idx(W, vec) == vec \o Repeat(RESERVED_BYTE, W)

\* write_idx, step i of the loop `for i in 0..self.0`.
RECURSIVE write_idx_from(_, _, _, _, _)
write_idx_from(W, vec, pos, idx, i) ==
    IF i >= W THEN vec
    ELSE write_idx_from(W, [vec EXCEPT ![pos + i + 1] = idx % 256], pos, idx \div 256, i + 1)

write_idx(W, vec, pos, idx) == write_idx_from(W, vec, pos, idx, 0)

push_idx(W, vec, idx) == write_idx(W, reserve_idx(W, vec), Len(vec), idx)

\* read_idx panics (index out of bounds) unless its W bytes lie inside data.
read_idx_ok(W, data, pos) == pos >= 0 /\ pos + W <= Len(data)

\* read_idx, step i of the loop, idx being the accumulator.
RECURSIVE read_idx_from(_, _, _, _, _)
read_idx_from(W, data, pos, idx, i) ==
    IF i >= W THEN idx
    ELSE read_idx_from(W, data, pos, idx * 256 + data[pos + i + 1], i + 1)

read_idx(W, data, pos) == read_idx_from(W, data, pos, 0, 0)

\* What is left of idx after write_idx's W shifts: nonzero when idx did not fit.
RECURSIVE ShiftedOut(_, _)
ShiftedOut(W, idx) == IF W <= 0 THEN idx ELSE ShiftedOut(W - 1, idx \div 256)

\* ------------------------------------------------------ FastrieBuilderNode

EmptyMap == [c \in {} |-> None]

new(index_width) ==
    [built |-> FALSE, children |-> EmptyMap, index_width |-> index_width, value |-> None]

\* add, but a value already stored at the key is kept.
RECURSIVE add_keeping_first(_, _, _)
add_keeping_first(self, pattern, value) ==
    IF pattern = << >>
    THEN IF self.value = None THEN [self EXCEPT !.value = Some(value)] ELSE self
    ELSE
        LET c == Head(pattern)
            children == IF c \in DOMAIN self.children THEN self.children
                        ELSE (c :> new(self.index_width)) @@ self.children
        IN  [self EXCEPT !.children =
                (c :> add_keeping_first(children[c], Tail(pattern), value)) @@ children]

\* add: walks pattern from `current`, inserting the missing children, and sets
\* the value of the node it ends on.
RECURSIVE add_from(_, _, _)
add_from(current, pattern, value) ==
    IF pattern = << >> THEN [current EXCEPT !.value = Some(value)]
    ELSE
        LET c == Head(pattern)
            children == IF c \in DOMAIN current.children THEN current.children
                        ELSE (c :> new(current.index_width)) @@ current.children
        IN  [current EXCEPT !.children =
                (c :> add_from(children[c], Tail(pattern), value)) @@ children]

add(self, pattern, value) == add_from(self, pattern, value)

\* ------------------------------------------------------------------ _build

RECURSIVE Insert(_, _)
\* x placed before the first element of the ascending sequence s that exceeds it.
Insert(s, x) ==
    IF s = << >> THEN <<x>>
    ELSE IF x < Head(s) THEN <<x>> \o s
    ELSE <<Head(s)>> \o Insert(Tail(s), x)

RECURSIVE sort(_)
\* slice::sort on a Vec<u8>: ascending.
sort(s) == IF s = << >> THEN << >> ELSE Insert(sort(SubSeq(s, 1, Len(s) - 1)), s[Len(s)])

RECURSIVE Ascending(_)
Ascending(S) ==
    IF S = {} THEN << >>
    ELSE LET m == CHOOSE x \in S : \A y \in S : x <= y
         IN  <<m>> \o Ascending(S \ {m})

Reverse(s) == [i \in 1..Len(s) |-> s[Len(s) + 1 - i]]

\* HashMap::keys(): the keys of a map in an order the hasher decides.
keys(map, seed) ==
    LET asc == Ascending(DOMAIN map)
    IN  IF seed = 0 \/ asc = << >> THEN asc
        ELSE IF seed = 1 THEN Reverse(asc)
        ELSE Tail(asc) \o <<Head(asc)>>

\* child_chars without the sort of line 88.
child_chars_unsorted(self, seed) == keys(self.children, seed)

\* lines 87-88: the children's bytes, collected and sorted.
child_chars(self, seed) == sort(keys(self.children, seed))

\* line 100 with <= for <: a gap of exactly three bytes opens a cluster too.
new_cluster_at_gap(last_char, p) == last_char + MAX_CLUSTER_GAP_LEN <= p

\* line 100: whether byte p opens a new cluster after last_char.
new_cluster(last_char, p) == last_char + MAX_CLUSTER_GAP_LEN < p

\* lines 97-109: one turn of the loop over child_chars; acc is
\* [clusters, last_char].
cluster_step(acc, c) ==
    LET p == c
        n == Len(acc.clusters)
        clusters ==
            IF new_cluster(acc.last_char, p) THEN Append(acc.clusters, << >>)
            ELSE [acc.clusters EXCEPT
                    ![n] = @ \o Repeat(None, (p - 1) - acc.last_char)]
        m == Len(clusters)
    IN  [clusters |-> [clusters EXCEPT ![m] = Append(@, Some(c))], last_char |-> p]

RECURSIVE cluster_loop(_, _)
cluster_loop(acc, chars) ==
    IF chars = << >> THEN acc
    ELSE cluster_loop(cluster_step(acc, Head(chars)), Tail(chars))

\* lines 90-110: child_char_clusters before it is sorted.
clusters_of(chars) ==
    cluster_loop([clusters |-> << >>, last_char |-> I16_MIN], chars).clusters

RECURSIVE InsertCluster(_, _)
\* x placed after every element at least as long: equal lengths keep their order.
InsertCluster(s, x) ==
    IF s = << >> THEN <<x>>
    ELSE IF Len(Head(s)) < Len(x) THEN <<x>> \o s
    ELSE <<Head(s)>> \o InsertCluster(Tail(s), x)

RECURSIVE sort_by_len_desc_from(_, _)
sort_by_len_desc_from(sorted, rest) ==
    IF rest = << >> THEN sorted
    ELSE sort_by_len_desc_from(InsertCluster(sorted, Head(rest)), Tail(rest))

\* line 112: the stable sort_by of the clusters, longest first.
sort_by_len_desc(clusters) == sort_by_len_desc_from(<< >>, clusters)

\* child_char_clusters as the emission loops see it.
child_char_clusters(self, seed) == sort_by_len_desc(clusters_of(child_chars(self, seed)))

\* The serializer's working state: data and values are _build's two &mut Vec
\* arguments.  The other fields are history: trunc says that some write_idx
\* dropped nonzero high bytes of its index, pending holds the positions of the
\* filler bytes not overwritten so far, nodes and clusters record where each
\* node record and each cluster record begins, panicked that the assertion on
\* the built flag failed.
NewState ==
    [data |-> << >>, values |-> << >>, trunc |-> FALSE, pending |-> {},
     nodes |-> {}, clusters |-> {}, panicked |-> FALSE]

st_reserve_idx(W, st) ==
    [st EXCEPT !.data = reserve_idx(W, @),
               !.pending = @ \cup {Len(st.data) + i : i \in 0..(W - 1)}]

st_write_idx(W, st, pos, idx) ==
    [st EXCEPT !.data = write_idx(W, @, pos, idx),
               !.pending = @ \ {pos + i : i \in 0..(W - 1)},
               !.trunc = @ \/ ShiftedOut(W, idx) # 0]

st_push_idx(W, st, idx) == st_write_idx(W, st_reserve_idx(W, st), Len(st.data), idx)

st_push(st, byte) == [st EXCEPT !.data = Append(@, byte)]

\* lines 79-84: value_idx, the 1-based index the node's value gets; 0 without one.
value_idx(self, st) == IF self.value # None THEN Len(st.values) + 1 ELSE 0

\* lines 79-85: the value moves to the value table, value_idx is pushed.
emit_value_idx(self, st) ==
    IF self.value # None
    THEN st_push_idx(self.index_width,
                     [st EXCEPT !.values = Append(@, self.value[1])],
                     value_idx(self, st))
    ELSE st_push_idx(self.index_width, st, value_idx(self, st))

\* lines 128-136: one slot of a cluster; acc is [st, replace], replace being
\* replace_with_child_indices.
emit_slot(W, acc, c) ==
    IF c # None
    THEN [st |-> st_reserve_idx(W, acc.st),
          replace |-> (c[1] :> Len(acc.st.data)) @@ acc.replace]
    ELSE [st |-> st_push_idx(W, acc.st, 0), replace |-> acc.replace]

RECURSIVE emit_slots(_, _, _)
emit_slots(W, acc, cluster) ==
    IF cluster = << >> THEN acc
    ELSE emit_slots(W, emit_slot(W, acc, Head(cluster)), Tail(cluster))

\* lines 119-127: the head of one cluster record; acc is [st, replace, last],
\* last being last_cluster_next_cluster_dist_pos.
emit_cluster_head(W, acc, cluster, path, k) ==
    LET cluster_pos == Len(acc.st.data)
        linked == IF acc.last # None
                  THEN st_write_idx(W, acc.st, acc.last[1], cluster_pos)
                  ELSE acc.st
        reserved == st_reserve_idx(W, linked)
        min == cluster[1][1]
        max == cluster[Len(cluster)][1]
        headed == st_push(st_push(reserved, min), max)
    IN  [st |-> [headed EXCEPT !.clusters = @ \cup
                    {[path |-> path, k |-> k, pos |-> cluster_pos,
                      cluster |-> cluster]}],
         replace |-> acc.replace,
         last |-> Some(cluster_pos)]

\* lines 118-137: one cluster record.
emit_cluster(W, acc, cluster, path, k) ==
    LET head == emit_cluster_head(W, acc, cluster, path, k)
        slots == emit_slots(W, [st |-> head.st, replace |-> head.replace], cluster)
    IN  [st |-> slots.st, replace |-> slots.replace, last |-> head.last]

RECURSIVE emit_clusters(_, _, _, _, _)
emit_clusters(W, acc, clusters, path, k) ==
    IF clusters = << >> THEN acc
    ELSE emit_clusters(W, emit_cluster(W, acc, Head(clusters), path, k),
                       Tail(clusters), path, k + 1)

\* lines 138-140: the last cluster's next-cluster field is set to zero.
close_chain(W, acc) ==
    IF acc.last # None THEN st_write_idx(W, acc.st, acc.last[1], 0) ELSE acc.st

\* lines 114-140: the has-children byte and the cluster chain of a node.
emit_chain(self, st, clusters, path) ==
    LET W == self.index_width
        flagged == st_push(st, IF DOMAIN self.children # {} THEN 1 ELSE 0)
        acc == emit_clusters(W, [st |-> flagged, replace |-> EmptyMap, last |-> None],
                             clusters, path, 1)
    IN  [st |-> close_chain(W, acc), replace |-> acc.replace]

RECURSIVE Flatten(_)
\* The bytes of the clusters in the order the loops of lines 142-150 meet them.
Flatten(clusters) ==
    IF clusters = << >> THEN << >>
    ELSE SelectSeq(Head(clusters), LAMBDA c : c # None) \o Flatten(Tail(clusters))

\* The assertion of line 76 left out.
not_built_unchecked(self) == TRUE

\* line 76: what assert! checks.
not_built(self) == ~self.built

RECURSIVE _build(_, _, _, _)
RECURSIVE build_children(_, _, _, _, _, _)

\* lines 142-150: each child's slot is patched with the position its record
\* is about to take, and the child is serialized.  order holds Some(byte)s.
build_children(self, st, replace, order, path, seed) ==
    IF order = << >> \/ st.panicked THEN [node |-> self, st |-> st]
    ELSE
        LET c == Head(order)[1]
            patched == st_write_idx(self.index_width, st, replace[c], Len(st.data))
            child == _build(self.children[c], patched, Append(path, c), seed)
        IN  build_children([self EXCEPT !.children[c] = child.node], child.st,
                           replace, Tail(order), path, seed)

\* _build: returns the node as it is left and the working state.  path (the
\* bytes leading to the node) only labels the history; seed orders keys().
_build(self, st, path, seed) ==
    IF ~not_built(self) THEN [node |-> self, st |-> [st EXCEPT !.panicked = TRUE]]
    ELSE
        LET marked == [self EXCEPT !.built = TRUE, !.value = None]
            located == [st EXCEPT !.nodes = @ \cup
                            {[path |-> path, pos |-> Len(st.data),
                              value_idx |-> value_idx(self, st)]}]
            valued == emit_value_idx(self, located)
            clusters == child_char_clusters(self, seed)
            chain == emit_chain(self, valued, clusters, path)
        IN  build_children(marked, chain.st, chain.replace, Flatten(clusters), path, seed)

\* prebuild: [node, st]; the caller receives FastrieBuild{data, index_width,
\* values} unless st.panicked.
prebuild(self, seed) == _build(self, NewState, << >>, seed)

\* ----------------------------------------------------------------- Fastrie

from_prebuilt(index_width, values, data) ==
    [data |-> data, index_width |-> index_width, values |-> Some(values)]

from_prebuilt_without_values(index_width, data) ==
    [data |-> data, index_width |-> index_width, values |-> None]

\* data[pos] panics (index out of bounds) unless pos is inside data.
byte_ok(data, pos) == pos >= 0 /\ pos < Len(data)

\* lines 257-276: the loop over the cluster chain of one node for the byte c.
\* Ends "child" (node_pos is the slot's nonzero content), "none" (break
\* 'outer), "panic" (a read outside data) or "hang": the loop is back at a
\* cluster position it has left before, and nothing else changes between turns.
RECURSIVE cluster_chain(_, _, _, _, _)
cluster_chain(W, data, c, cluster_pos, seen) ==
    IF cluster_pos \in seen THEN [end |-> "hang", node_pos |-> 0]
    ELSE IF ~read_idx_ok(W, data, cluster_pos) \/ ~byte_ok(data, cluster_pos + W + 1)
    THEN [end |-> "panic", node_pos |-> 0]
    ELSE
        LET next_cluster_pos == read_idx(W, data, cluster_pos)
            cluster_min == data[cluster_pos + W + 1]
            cluster_max == data[cluster_pos + W + 2]
            slot == cluster_pos + W + 2 + (c - cluster_min) * W
        IN  IF c >= cluster_min /\ c <= cluster_max
            THEN IF ~read_idx_ok(W, data, slot) THEN [end |-> "panic", node_pos |-> 0]
                 ELSE IF read_idx(W, data, slot) = 0 THEN [end |-> "none", node_pos |-> 0]
                 ELSE [end |-> "child", node_pos |-> read_idx(W, data, slot)]
            ELSE IF next_cluster_pos = 0 THEN [end |-> "none", node_pos |-> 0]
            ELSE cluster_chain(W, data, c, next_cluster_pos, seen \cup {cluster_pos})

\* lines 249-283: the loop over text from its 0-based index i on.
RECURSIVE lmp_loop(_, _, _, _, _)
lmp_loop(self, text, i, node_pos, match_opt) ==
    LET W == self.index_width
        data == self.data
    IN  IF i >= Len(text) THEN [outcome |-> "return", ret |-> match_opt]
        ELSE IF ~byte_ok(data, node_pos + W) THEN [outcome |-> "panic", ret |-> None]
        ELSE IF data[node_pos + W + 1] = 0 THEN [outcome |-> "return", ret |-> match_opt]
        ELSE
            LET hop == cluster_chain(W, data, text[i + 1], node_pos + W + 1, {})
            IN  IF hop.end \in {"panic", "hang"} THEN [outcome |-> hop.end, ret |-> None]
                ELSE IF hop.end = "none" THEN [outcome |-> "return", ret |-> match_opt]
                ELSE IF ~read_idx_ok(W, data, hop.node_pos)
                THEN [outcome |-> "panic", ret |-> None]
                ELSE
                    LET node_value_idx == read_idx(W, data, hop.node_pos)
                    IN  lmp_loop(self, text, i + 1, hop.node_pos,
                                 IF node_value_idx # 0
                                 THEN Some(<<i, node_value_idx - 1>>)
                                 ELSE match_opt)

\* _longest_matching_prefix that takes the root's value for a match before
\* the loop.
lmp_root_first(self, text) ==
    lmp_loop(self, text, 0, 0,
             IF read_idx(self.index_width, self.data, 0) # 0
             THEN Some(<<0, read_idx(self.index_width, self.data, 0) - 1>>)
             ELSE None)

\* _longest_matching_prefix: outcome "return" with ret = Option<(end, value index)>,
\* or outcome "panic" or "hang".
_longest_matching_prefix(self, text) == lmp_loop(self, text, 0, 0, None)

\* contains_key.  The closure of filter runs only on Some; there key.len() - 1
\* underflows on an empty key: a panic with overflow checks, usize::MAX
\* (equal to no index) without.
contains_key(self, key, overflow_checks) ==
    LET found == _longest_matching_prefix(self, key)
    IN  IF found.outcome # "return" THEN found
        ELSE IF found.ret = None THEN [outcome |-> "return", ret |-> Some(FALSE)]
        ELSE IF Len(key) = 0
        THEN IF overflow_checks THEN [outcome |-> "panic", ret |-> None]
             ELSE [outcome |-> "return", ret |-> Some(FALSE)]
        ELSE [outcome |-> "return", ret |-> Some(found.ret[1][1] = Len(key) - 1)]

\* longest_matching_prefix: the closure of map runs only on Some; it unwraps
\* the value table and indexes it.
longest_matching_prefix(self, text) ==
    LET found == _longest_matching_prefix(self, text)
    IN  IF found.outcome # "return" \/ found.ret = None THEN found
        ELSE IF self.values = None \/ found.ret[1][2] >= Len(self.values[1])
        THEN [outcome |-> "panic", ret |-> None]
        ELSE [outcome |-> "return",
              ret |-> Some([end |-> found.ret[1][1],
                            value |-> self.values[1][found.ret[1][2] + 1]])]

\* ------------------------------------------------------------------ actions

NoCall == [op |-> "none", text |-> << >>, with_values |-> FALSE,
           outcome |-> "return", ret |-> None]

NoLayout == [nodes |-> {}, clusters |-> {}, pending |-> {}, trunc |-> FALSE]

NoAssoc == [k \in AllKeys |-> None]

IdleCodec == [index_width |-> 1, vec |-> << >>, pos |-> None, idx |-> None,
              decoded |-> None]

\* FastrieBuilderNode::new(IndexWidth(W)); nothing added, built or asked yet.
Init ==
    /\ \E W \in Widths : builder = new(W)
    /\ build = None
    /\ layout = NoLayout
    /\ res = NoCall
    /\ assoc = NoAssoc
    /\ log = << >>
    /\ codec = IdleCodec

\* builder.add(pattern, value)
AddCall(pattern, value) ==
    /\ builder' = add(builder, pattern, value)
    /\ assoc' = [assoc EXCEPT ![pattern] = Some(value)]
    /\ res' = [op |-> "add", text |-> pattern, with_values |-> FALSE,
               outcome |-> "return", ret |-> None]
    /\ UNCHANGED <<build, layout, codec>>

\* add of one of the keys K to a builder that has not been serialized.
Add(K) ==
    /\ ~builder.built
    /\ \E pattern \in K, value \in Vals : AddCall(pattern, value)
    /\ UNCHANGED log

\* The same, the call being recorded in log.
AddLogged ==
    /\ ~builder.built
    /\ Len(log) < MaxAdds
    /\ \E pattern \in LogKeys, value \in Vals :
        /\ AddCall(pattern, value)
        /\ log' = Append(log, <<pattern, value>>)

\* add to a builder that has been serialized.
LateAdd ==
    /\ builder.built
    /\ \E pattern \in LateKeys, value \in Vals : AddCall(pattern, value)
    /\ UNCHANGED log

\* builder.prebuild().  A failed assertion unwinds: the caller gets no
\* FastrieBuild and keeps what it held.
Prebuild ==
    \E seed \in Seeds : \E r \in {prebuild(builder, seed)} :
            /\ builder' = r.node
            /\ build' = IF r.st.panicked THEN build
                        ELSE Some([data |-> r.st.data,
                                   index_width |-> builder.index_width,
                                   values |-> r.st.values])
            /\ layout' = IF r.st.panicked THEN layout
                         ELSE [nodes |-> r.st.nodes, clusters |-> r.st.clusters,
                               pending |-> r.st.pending, trunc |-> r.st.trunc]
            /\ res' = [op |-> "prebuild", text |-> << >>, with_values |-> FALSE,
                       outcome |-> IF r.st.panicked THEN "panic" ELSE "return",
                       ret |-> None]
            /\ UNCHANGED <<assoc, log, codec>>

\* The reader over the build: Fastrie::from_prebuilt or
\* from_prebuilt_without_values.
Reader(with_values) ==
    IF with_values
    THEN from_prebuilt(build[1].index_width, build[1].values, build[1].data)
    ELSE from_prebuilt_without_values(build[1].index_width, build[1].data)

\* The reader never changes: a query made after another query returns what
\* the same query returns when made first, so one query per run reaches every
\* state that any number of them reaches.
Asked == res.op \in {"longest_matching_prefix", "contains_key"}

\* trie.longest_matching_prefix(text)
LongestMatchingPrefix(T) ==
    /\ build # None
    /\ ~Asked
    /\ \E text \in T, with_values \in BOOLEAN :
        \E r \in {longest_matching_prefix(Reader(with_values), text)} :
            res' = [op |-> "longest_matching_prefix", text |-> text,
                    with_values |-> with_values, outcome |-> r.outcome, ret |-> r.ret]
    /\ UNCHANGED <<builder, build, layout, assoc, log, codec>>

\* trie.contains_key(key)
ContainsKey(T) ==
    /\ build # None
    /\ ~Asked
    /\ \E key \in T, with_values \in BOOLEAN, overflow_checks \in BOOLEAN :
        \E r \in {contains_key(Reader(with_values), key, overflow_checks)} :
            res' = [op |-> "contains_key", text |-> key,
                    with_values |-> with_values, outcome |-> r.outcome, ret |-> r.ret]
    /\ UNCHANGED <<builder, build, layout, assoc, log, codec>>

\* The life of a builder and its reader: adds, prebuild, queries.
Next == Add(Keys) \/ Prebuild \/ LongestMatchingPrefix(Texts) \/ ContainsKey(Texts)

Spec == Init /\ [][Next]_vars

\* The same with the long keys: builds whose positions pass 255.
NextLong ==
    Add(LongKeys) \/ Prebuild \/ LongestMatchingPrefix(LongTexts) \/ ContainsKey(LongTexts)

SpecLong == Init /\ [][NextLong]_vars

\* A builder that is used again after prebuild.
NextReuse == Add(Keys) \/ LateAdd \/ Prebuild

SpecReuse == Init /\ [][NextReuse]_vars

\* Runs that record the order of their add calls.
NextLog == AddLogged \/ Prebuild \/ LongestMatchingPrefix(Texts)

SpecLog == Init /\ [][NextLog]_vars

\* A caller that fills the builder with the wide keys, one after the other.
AddWide ==
    /\ ~builder.built
    /\ Len(log) < WideCount
    /\ AddCall(WideKey(Len(log)), "v1")
    /\ log' = Append(log, <<WideKey(Len(log)), "v1">>)

\* Builds with more than 255 values.
NextWide == AddWide \/ Prebuild

\* The narrowest index width: the one that 256 values do not fit.
InitWide == Init /\ builder = new(1)

SpecWide == InitWide /\ [][NextWide]_vars

\* ------------------------------------------------------------ index codec

RECURSIVE Pow256(_)
Pow256(W) == IF W <= 0 THEN 1 ELSE 256 * Pow256(W - 1)

\* The indices the codec is driven with: the small ones and the largest few.
CodecInputs(W) ==
    {n \in 0..MaxCodecIdx : n < Pow256(W)}
        \cup {Pow256(W) - 1, Pow256(W) - 2, Pow256(W) - 256}

\* A Vec<u8> that is empty or holds bytes already, and an index width.
InitCodec ==
    /\ \E W \in Widths, vec \in {<< >>, <<1, 5, 8>>} :
        codec = [index_width |-> W, vec |-> vec, pos |-> None, idx |-> None,
                 decoded |-> None]
    /\ builder = new(1)
    /\ build = None
    /\ layout = NoLayout
    /\ res = NoCall
    /\ assoc = NoAssoc
    /\ log = << >>

\* let pos = index_width.reserve_idx(vec)
CodecReserve ==
    /\ codec.pos = None
    /\ codec' = [codec EXCEPT !.vec = reserve_idx(codec.index_width, @),
                              !.pos = Some(Len(codec.vec))]
    /\ UNCHANGED <<builder, build, layout, res, assoc, log>>

\* index_width.write_idx(vec, pos, idx) into the field reserved at pos
CodecWrite ==
    /\ codec.pos # None
    /\ codec.idx = None
    /\ \E idx \in CodecInputs(codec.index_width) :
        codec' = [codec EXCEPT
                    !.vec = write_idx(codec.index_width, @, codec.pos[1], idx),
                    !.idx = Some(idx)]
    /\ UNCHANGED <<builder, build, layout, res, assoc, log>>

\* index_width.push_idx(vec, idx)
CodecPush ==
    /\ codec.pos = None
    /\ \E idx \in CodecInputs(codec.index_width) :
        codec' = [codec EXCEPT !.vec = push_idx(codec.index_width, @, idx),
                               !.pos = Some(Len(codec.vec)),
                               !.idx = Some(idx)]
    /\ UNCHANGED <<builder, build, layout, res, assoc, log>>

\* index_width.read_idx(vec, pos) of the field written
CodecRead ==
    /\ codec.idx # None
    /\ codec.decoded = None
    /\ codec' = [codec EXCEPT
                    !.decoded = Some(read_idx(codec.index_width, codec.vec, codec.pos[1]))]
    /\ UNCHANGED <<builder, build, layout, res, assoc, log>>

NextCodec == CodecReserve \/ CodecWrite \/ CodecPush \/ CodecRead

SpecCodec == InitCodec /\ [][NextCodec]_vars

\* ------------------------------------------------------------------- claims

IsPrefix(k, q) == Len(k) <= Len(q) /\ SubSeq(q, 1, Len(k)) = k

\* The keys that have been added.
AddedKeys == {k \in AllKeys : assoc[k] # None}

\* The added keys that are a prefix of q.
PrefixKeys(q) == {k \in AddedKeys : IsPrefix(k, q)}

\* What the longest added key that is a prefix of q gives: its last byte's
\* index in q and its value; None when no added key is a prefix of q.
LongestMatch(q) ==
    IF PrefixKeys(q) = {} THEN None
    ELSE LET k == CHOOSE x \in PrefixKeys(q) : \A y \in PrefixKeys(q) : Len(y) <= Len(x)
         IN  Some([end |-> Len(k) - 1, value |-> assoc[k][1]])

\* C1: with only non-empty keys added and every serialized index fitting the
\* index width, longest_matching_prefix on the reader with the value table
\* returns, for the longest added key that is a prefix of the text, the index
\* of that key's last byte and the key's value, and no match when no added
\* key is a prefix of the text.
C1_LongestPrefixOfAddedKeys ==
    (/\ res.op = "longest_matching_prefix"
     /\ res.with_values
     /\ assoc[<< >>] = None
     /\ ~layout.trunc)
        => (res.outcome = "return" /\ res.ret = LongestMatch(res.text))

\* C2: with only non-empty keys added, contains_key of a non-empty key is
\* true exactly when that key has been added, on the reader with and on the
\* reader without the value table.
C2_ContainsExactlyAddedKeys ==
    (/\ res.op = "contains_key"
     /\ res.text # << >>
     /\ assoc[<< >>] = None)
        => (res.outcome = "return" /\ res.ret = Some(res.text \in AddedKeys))

\* C3: an index written into a W-byte field by write_idx or push_idx is the
\* index read_idx reads back from that field.
C3_IndexRoundTrip == codec.decoded # None => codec.decoded = codec.idx

\* C4: prebuild returns no buffer into which an index too large for the
\* index width has been written cut to its low bytes.
C4_OverflowAbortsBuild == build # None => ~layout.trunc

\* The field of W bytes at pos holds idx: its bytes are the ones write_idx
\* writes for idx, and idx has no higher bytes.
Holds(W, data, pos, idx) ==
    /\ pos + W <= Len(data)
    /\ SubSeq(data, pos + 1, pos + W) = write_idx(W, Repeat(RESERVED_BYTE, W), 0, idx)
    /\ ShiftedOut(W, idx) = 0

\* The keys of the recorded add calls, and for a key the value of its last add.
LoggedKeys == {log[i][1] : i \in 1..Len(log)}
LastAdd(k) ==
    LET last == CHOOSE i \in 1..Len(log) :
                    /\ log[i][1] = k
                    /\ \A j \in (i + 1)..Len(log) : log[j][1] # k
    IN  log[last][2]

\* The values a later add to the same key replaced and that no key ends with.
Overwritten ==
    {log[i][2] : i \in {j \in 1..Len(log) : \E l \in (j + 1)..Len(log) : log[l][1] = log[j][1]}}
        \ {LastAdd(k) : k \in LoggedKeys}

\* C5: after prebuild the value table has one entry per distinct added key;
\* the node of every added key carries the index of the value of the last
\* add to that key, in the history and in its value-index field, and every
\* other node carries zero; a value that was overwritten is nowhere in the
\* value table and no query returns it.
C5_LastAddWins ==
    build # None =>
        LET data == build[1].data
            values == build[1].values
            W == build[1].index_width
        IN  /\ Len(values) = Cardinality(LoggedKeys)
            /\ \A k \in LoggedKeys : \E n \in layout.nodes :
                /\ n.path = k
                /\ n.value_idx \in 1..Len(values)
                /\ values[n.value_idx] = LastAdd(k)
            /\ \A n \in layout.nodes :
                /\ n.path \notin LoggedKeys => n.value_idx = 0
                /\ Holds(W, data, n.pos, n.value_idx)
            /\ \A v \in Overwritten : \A i \in 1..Len(values) : values[i] # v
            /\ (res.op = "longest_matching_prefix" /\ res.outcome = "return"
                    /\ res.ret # None)
                => res.ret[1].value \notin Overwritten

\* C5's case: a value was overwritten, the trie was built, and a query
\* returned the value that replaced it.
C5_Witness ==
    /\ build # None
    /\ Overwritten # {}
    /\ Len(log) >= 2 /\ log[1][1] = log[2][1] /\ log[1][2] # log[2][2]
    /\ res.op = "longest_matching_prefix"
    /\ res.text = log[1][1]
    /\ res.ret # None

RECURSIVE EveryNodeBuilt(_)
EveryNodeBuilt(node) ==
    node.built /\ \A c \in DOMAIN node.children : EveryNodeBuilt(node.children[c])

RECURSIVE Paths(_, _)
\* The paths of the nodes of the tree under node, which is at path.
Paths(node, path) ==
    {path} \cup UNION {Paths(node.children[c], Append(path, c)) : c \in DOMAIN node.children}

RECURSIVE NodeAt(_, _)
NodeAt(node, path) ==
    IF path = << >> THEN node ELSE NodeAt(node.children[Head(path)], Tail(path))

\* C6: the prebuild that returns the build leaves every node of the builder
\* serialized and with its built flag set; from then on the flags of the
\* serialized nodes stay set, the build the caller holds is never replaced,
\* and every prebuild call ends in the failed assertion, whatever has been
\* added since.
C6_OneShotBuild ==
    [][/\ (build = None /\ build' # None) =>
            /\ EveryNodeBuilt(builder')
            /\ {n.path : n \in layout'.nodes} = Paths(builder', << >>)
       /\ build # None =>
            /\ build' = build
            /\ \A n \in layout.nodes : NodeAt(builder', n.path).built
            /\ res'.op = "prebuild" => res'.outcome = "panic"]_vars

\* C6's case: a key was added after the build and a later prebuild failed.
C6_Witness ==
    /\ build # None
    /\ assoc[<<20, 7>>] # None
    /\ res.op = "prebuild"
    /\ res.outcome = "panic"

\* The sequences that hold every element of S once.
Orders(S) ==
    {f \in [1..Cardinality(S) -> S] : \A i, j \in 1..Cardinality(S) : f[i] = f[j] => i = j}

RECURSIVE AddAll(_, _)
\* A builder after add(k, LastAdd(k)) for the keys of order, in that order.
AddAll(node, order) ==
    IF order = << >> THEN node
    ELSE AddAll(add(node, Head(order), LastAdd(Head(order))), Tail(order))

\* C7: the data and the value table prebuild returned are the ones it returns
\* for a builder of the same index width to which the same final association
\* was added in any order, under any iteration order of the children maps.
C7_Deterministic ==
    (build # None /\ res.op = "prebuild") =>
        \A order \in Orders(LoggedKeys), seed \in Seeds :
            LET st == prebuild(AddAll(new(build[1].index_width), order), seed).st
            IN  <<st.data, st.values>> = <<build[1].data, build[1].values>>

\* C7's case: a node with children in two clusters, added in descending
\* order of their bytes, and built.
C7_Witness ==
    /\ build # None
    /\ res.op = "prebuild"
    /\ Len(log) >= 2 /\ log[1][1] = <<23>> /\ log[2][1] = <<20, 5>>
    /\ Cardinality(LoggedKeys) = 3

\* C8: the empty text gets no match and the empty key is not contained, both
\* by a plain return, whether or not a value was added under the empty key;
\* the end of every returned match is an index of the text.
C8_RootNeverMatches ==
    /\ (res.op = "longest_matching_prefix" /\ res.text = << >>)
        => (res.outcome = "return" /\ res.ret = None)
    /\ (res.op = "contains_key" /\ res.text = << >>)
        => (res.outcome = "return" /\ res.ret = Some(FALSE))
    /\ (res.op = "longest_matching_prefix" /\ res.outcome = "return" /\ res.ret # None)
        => res.ret[1].end \in 0..(Len(res.text) - 1)
    /\ (res.op = "contains_key" /\ res.outcome = "return" /\ res.ret = Some(TRUE))
        => res.text # << >>

\* C8's case: a value was added under the empty key and the reader is asked
\* for it.
C8_Witness ==
    /\ build # None
    /\ assoc[<< >>] # None
    /\ res.op = "contains_key"
    /\ res.text = << >>
    /\ res.outcome = "return"

\* The bytes of the children of the serialized node at path.
ChildBytes(path) ==
    {n.path[Len(n.path)] :
        n \in {m \in layout.nodes : Len(m.path) = Len(path) + 1 /\ IsPrefix(path, m.path)}}

\* The cluster records of the serialized node at path.
ClustersOf(path) == {cl \in layout.clusters : cl.path = path}

\* The bytes that have a slot of their own in a cluster.
BytesIn(cluster) == {cluster[i][1] : i \in {j \in 1..Len(cluster) : cluster[j] # None}}

\* C9: when prebuild has returned, for every serialized node, two children next to each other in
\* ascending order of their bytes p < c are in one cluster exactly when
\* p + 3 < c is false; every child byte is in exactly one cluster; every
\* cluster starts and ends with a child, has max - min + 1 slots, slot i
\* being the child min + i if there is one and a gap if not, never three
\* gaps in a row; its record holds min and max and ends W + 2 + W * (max -
\* min + 1) bytes after it began, where the next cluster of the node or,
\* after the last one, a child record begins.
C9_BoundedGapClusters ==
    (build # None /\ res.op = "prebuild") =>
        LET data == build[1].data
            W == build[1].index_width
        IN  \A n \in layout.nodes :
                LET B == ChildBytes(n.path)
                    CS == ClustersOf(n.path)
                IN  /\ \A b \in B : Cardinality({cl \in CS : b \in BytesIn(cl.cluster)}) = 1
                    /\ \A p, c \in B :
                        (p < c /\ ~\E m \in B : p < m /\ m < c)
                            => ((\E cl \in CS : {p, c} \subseteq BytesIn(cl.cluster))
                                    <=> ~(p + 3 < c))
                    /\ \A cl \in CS :
                        LET slots == cl.cluster
                            last == Len(slots)
                            after == cl.pos + W + 2 + W * last
                        IN  /\ last >= 1 /\ slots[1] # None /\ slots[last] # None
                            /\ last = slots[last][1] - slots[1][1] + 1
                            /\ \A i \in 1..last :
                                slots[i] = IF slots[1][1] + i - 1 \in B
                                           THEN Some(slots[1][1] + i - 1) ELSE None
                            /\ \A i \in 1..(last - 2) :
                                ~(slots[i] = None /\ slots[i + 1] = None
                                    /\ slots[i + 2] = None)
                            /\ after <= Len(data)
                            /\ data[cl.pos + W + 1] = slots[1][1]
                            /\ data[cl.pos + W + 2] = slots[last][1]
                            /\ \/ \E next \in CS : next.k = cl.k + 1 /\ next.pos = after
                               \/ /\ ~\E next \in CS : next.k > cl.k
                                  /\ \E child \in layout.nodes :
                                        /\ child.pos = after
                                        /\ Len(child.path) = Len(n.path) + 1
                                        /\ IsPrefix(n.path, child.path)

\* C9's case: the root has the children 20, 23 and 27: 20 and 23 share a
\* cluster with two gaps between them, 27 has a cluster of its own.
C9_Witness ==
    /\ build # None
    /\ res.op = "prebuild"
    /\ {20, 23, 27} \subseteq ChildBytes(<< >>)
    /\ \E cl \in ClustersOf(<< >>) : cl.cluster = <<Some(20), None, None, Some(23)>>
    /\ \E cl \in ClustersOf(<< >>) : cl.cluster = <<Some(27)>>

\* C10: when prebuild has returned, no filler byte is left; every slot of a
\* child holds the nonzero position where that child's record begins, the
\* value-index field of that record lying inside data, and every gap slot
\* holds zero; the next-cluster field of a cluster holds the position of the
\* next cluster record of the same node, and zero in the last one.
C10_BackPatched ==
    build # None =>
        LET data == build[1].data
            W == build[1].index_width
        IN  /\ layout.pending = {}
            /\ \A cl \in layout.clusters :
                /\ \A i \in 1..Len(cl.cluster) :
                    LET slot == cl.pos + W + 2 + (i - 1) * W
                    IN  IF cl.cluster[i] = None THEN Holds(W, data, slot, 0)
                        ELSE \E child \in layout.nodes :
                                /\ child.path = Append(cl.path, cl.cluster[i][1])
                                /\ child.pos # 0
                                /\ child.pos + W <= Len(data)
                                /\ Holds(W, data, slot, child.pos)
                /\ IF \E next \in layout.clusters : next.path = cl.path /\ next.k = cl.k + 1
                   THEN \E next \in layout.clusters :
                            /\ next.path = cl.path /\ next.k = cl.k + 1
                            /\ Holds(W, data, cl.pos, next.pos)
                   ELSE Holds(W, data, cl.pos, 0)

RECURSIVE LittleEndian(_)
\* The number a field's bytes stand for, low byte first as write_idx lays
\* them down.
LittleEndian(bytes) ==
    IF bytes = << >> THEN 0 ELSE Head(bytes) + 256 * LittleEndian(Tail(bytes))

\* The number in the W-byte field at pos.
FieldAt(W, data, pos) == LittleEndian(SubSeq(data, pos + 1, pos + W))

\* The place in its node's chain of the cluster that holds the child byte b
\* of the serialized node at path.
ClusterRank(path, b) ==
    (CHOOSE cl \in ClustersOf(path) : b \in BytesIn(cl.cluster)).k

\* Where the serializer's loops meet a node: for each byte of its path, the
\* place of the byte's cluster in the chain and then the byte, as one number.
VisitKey(path) ==
    [i \in 1..Len(path) |-> 256 * ClusterRank(SubSeq(path, 1, i - 1), path[i]) + path[i]]

RECURSIVE Before(_, _)
\* The visit key a comes before the visit key b in pre-order: a node before
\* its descendants, the children of a node cluster by cluster along the
\* chain and by ascending byte within a cluster.
Before(a, b) ==
    IF b = << >> THEN FALSE
    ELSE IF a = << >> THEN TRUE
    ELSE IF Head(a) # Head(b) THEN Head(a) < Head(b)
    ELSE Before(Tail(a), Tail(b))

\* The serialized nodes, each with its visit key, the number in its
\* value-index field and the value added under its path, if any.
Visited ==
    {[pos |-> n.pos, value_idx |-> n.value_idx, key |-> VisitKey(n.path),
      field |-> FieldAt(build[1].index_width, build[1].data, n.pos),
      value |-> IF n.path \in AllKeys THEN assoc[n.path] ELSE None] :
        n \in layout.nodes}

\* C11: when prebuild has returned, the clusters of every node lie in data
\* along the chain in decreasing slot count, clusters of equal slot count in
\* ascending order of their min byte; the node records lie in data in the
\* pre-order that follows the chain and ascending bytes within a cluster;
\* the value table holds the values of the valued nodes in that pre-order;
\* the value-index field of a valued node holds the 1-based place of its
\* value, that of any other node zero; the nonzero value-index fields are
\* distinct numbers in 1..len(values).
C11_EmissionOrder ==
    (build # None /\ res.op = "prebuild" /\ res.outcome = "return") =>
        LET values == build[1].values
        IN  /\ \A a, b \in layout.clusters :
                (a.path = b.path /\ a.k < b.k) =>
                    /\ a.pos < b.pos
                    /\ Len(a.cluster) >= Len(b.cluster)
                    /\ Len(a.cluster) = Len(b.cluster)
                        => a.cluster[1][1] < b.cluster[1][1]
            /\ \A nodes \in {Visited} :
                /\ Cardinality(nodes) = Cardinality(layout.nodes)
                /\ Len(values) = Cardinality({n \in nodes : n.value # None})
                /\ \A m, n \in nodes :
                    m.pos < n.pos =>
                        /\ Before(m.key, n.key)
                        /\ n.field # 0 => m.field # n.field
                /\ \A n \in nodes :
                    /\ n.value_idx =
                        IF n.value = None THEN 0
                        ELSE 1 + Cardinality({m \in nodes :
                                                m.value # None /\ m.pos < n.pos})
                    /\ n.value # None => values[n.value_idx] = n.value[1]
                    /\ n.field = n.value_idx
                    /\ n.field # 0 => n.field \in 1..Len(values)

\* C12: a query on the buffer prebuild returned, read with the build's own
\* index width, runs _longest_matching_prefix to its return: every byte and
\* every index field it reads lies inside data, and within one byte of the
\* text the walk along a cluster chain never comes back to a cluster it has
\* left (the loop over the text takes one node transition per byte at most,
\* so a walk that returns has taken no more than len(text) of them).
C12_BoundedInBoundsQuery ==
    (build # None /\ Asked) =>
        _longest_matching_prefix(
            from_prebuilt_without_values(build[1].index_width, build[1].data),
            res.text).outcome = "return"

====
